---- MODULE Spec2Model ----
(***************************************************************************)
(* Model of the realtime-playground conversation engine:                   *)
(*   - RealtimeApiEventProcessor (src/src/lib/protocols/...), the inbound  *)
(*     event filter with its interrupt cursor lastInterruptTimestamp;      *)
(*   - EventProcessor (src/unnamed/part_001), listener registration and    *)
(*     dispatch;                                                           *)
(*   - Conversation (src/src/lib/Conversation.ts), the session lifecycle   *)
(*     with its transport callbacks and its asynchronous teardown.         *)
(***************************************************************************)
EXTENDS Integers, Sequences, FiniteSets, TLC

VARIABLES
    \* ---- RealtimeApiEventProcessor / EventProcessor ----
    lastInterruptTimestamp, \* the interrupt cursor (a JS number, possibly NaN)
    onAudioChunk,           \* TRUE iff the audio-chunk sink is configured
    onAudioInterrupt,       \* TRUE iff the audio-interrupt sink is configured
    onAudioFadeOut,         \* TRUE iff the audio-fade-out sink is configured
    eventHandlers,          \* key -> handlers registered, in insertion order
    \* ---- observation of the most recent processor operation ----
    lastEvent,              \* the event handed to the last process* call
    prevTimestamp,          \* the cursor when the last operation started
    calls,                  \* sinks and listeners that call invoked, and the
                            \* cursor assignment it made, in order
    threw,                  \* TRUE iff that call ended by throwing
    history,                \* the processed stream (ordering specification)
    \* ---- Conversation ----
    audioInput,             \* "null" | "open" | "closed"  (capture device)
    audioOutput,            \* "null" | "open" | "closed"  (render device)
    ws,                     \* "null" | "set": the Conversation's ws field
    sock,                   \* state of the WebSocket object once created
    isConnected,            \* the connection flag
    pcInit,                 \* position of startSession/initialize
    pcErr,                  \* position of the async ws.onerror callback
    pcEnd,                  \* call -> position of that endSession()/close() call
    kind,                   \* call -> "endSession" | "close"
    stepFailed,             \* call -> TRUE iff a close step of the call failed
    reports,                \* call -> number of handleError reports it made
    sequential,             \* call -> TRUE iff no other call was in flight at its start
    connectedAtStart,       \* call -> the connection flag when the call started
    internalLog,            \* internal events dispatched, with their origin
    closeCalls,             \* device -> number of close() invocations on it
    onSendEvent,            \* TRUE iff config.onSendEvent was provided
    isMuted,                \* the Conversation's isMuted field
    volume,                 \* the Conversation's volume field, in hundredths
    \* ---- observation of the most recent sendEvent call ----
    sendArg,                \* type of the event passed to that call
    sendLog,                \* what that call did, in order
    sendResult,             \* how that call ended
    \* ---- the audio devices as the session drives them ----
    inputMuted,             \* mute flag held by the capture worklet
    gain,                   \* gain of the render device, in hundredths
    \* ---- useConversation: the hook and the sessions it creates ----
    conversationRef,        \* conversationRef.current: 0 (null) or a session
    created,                \* number of Conversation objects constructed
    inputOf,                \* session -> "null" | "open" | "closed"
    outputOf,               \* session -> "null" | "open" | "closed"
    hookOp,                 \* hook call -> "none" | "start" | "end"
    hookPc,                 \* hook call -> position of that call
    hookTarget,             \* hook call -> the session it tears down (0: none)
    hookNew,                \* hook call -> the session it creates (0: none)
    \* ---- inbound messages, mute requests, the render path ----
    lastMessage,            \* what the last ws.onmessage call was handed and did
    requestedMute,          \* last value passed to the hook's setMuted
    isProcessing,           \* the hook's state.isProcessing
    interrupted,            \* the render worklet's interrupted flag
    fadeTimers,             \* the pending fadeOutAudio timers, oldest first:
                            \* for each, where endSession stood when it was set
    renderLog               \* what the last render operation did, in order

procVars == <<lastInterruptTimestamp, onAudioChunk, onAudioInterrupt,
              onAudioFadeOut, eventHandlers>>
obsVars  == <<lastEvent, prevTimestamp, calls, threw>>
sessionVars == <<audioInput, audioOutput, ws, sock, isConnected, pcInit,
                 pcErr, pcEnd, kind, stepFailed, reports, sequential,
                 connectedAtStart, internalLog, closeCalls>>
sendVars == <<onSendEvent, isMuted, volume, sendArg, sendLog, sendResult>>
deviceVars == <<inputMuted, gain>>
hookVars == <<conversationRef, created, inputOf, outputOf, hookOp, hookPc,
              hookTarget, hookNew>>
auxVars == <<lastMessage, requestedMute, isProcessing, interrupted,
             fadeTimers, renderLog>>
convVars == <<sessionVars, sendVars, deviceVars, hookVars, auxVars>>
vars     == <<procVars, obsVars, history, convVars>>

-----------------------------------------------------------------------------
(* Bounds of the model.                                                    *)

\* Registrations (on) held at one time by the event processor.
MaxListeners == 1
\* Length of the inbound stream followed by the ordering specification.
MaxHistory == 4
\* Number of endSession()/close() calls made on one session.
MaxEndCalls == 2
\* Conversation objects the hook constructs; overlapping hook calls.
MaxSessions == 3
MaxHookCalls == 2
\* Nesting of handleError -> triggerEvent("error") followed before the
\* dispatch is cut and marked as not returning.
MaxErrorDepth == 2

-----------------------------------------------------------------------------
(* JavaScript numbers.  Parsed suffixes are naturals; NaN is the one       *)
(* non-number value parseFloat can produce on the inputs considered.       *)

NaN == -1

\* a <= b on JS numbers: FALSE as soon as one side is NaN
JsLeq(a, b) == a # NaN /\ b # NaN /\ a <= b
\* a > b on JS numbers: FALSE as soon as one side is NaN
JsGt(a, b) == a # NaN /\ b # NaN /\ a > b
\* a < b on JS numbers
JsLt(a, b) == a # NaN /\ b # NaN /\ a < b

-----------------------------------------------------------------------------
(* Response identifiers.  TLC cannot index a string, so every identifier   *)
(* used as an input is listed with its characters.                         *)

Undefined == "<undefined>"     \* the response_id field is absent

CharsOf(s) ==
    CASE s = "resp_5"   -> <<"r", "e", "s", "p", "_", "5">>
      [] s = "resp_6"   -> <<"r", "e", "s", "p", "_", "6">>
      [] s = "resp_7"   -> <<"r", "e", "s", "p", "_", "7">>
      [] s = "resp_8"   -> <<"r", "e", "s", "p", "_", "8">>
      [] s = "resp_100" -> <<"r", "e", "s", "p", "_", "1", "0", "0">>
      [] s = "resp_abc" -> <<"r", "e", "s", "p", "_", "a", "b", "c">>
      [] s = "resp_"    -> <<"r", "e", "s", "p", "_">>
      [] s = "resp"     -> <<"r", "e", "s", "p">>

DigitValue(c) ==
    CASE c = "0" -> 0 [] c = "1" -> 1 [] c = "2" -> 2 [] c = "3" -> 3
      [] c = "4" -> 4 [] c = "5" -> 5 [] c = "6" -> 6 [] c = "7" -> 7
      [] c = "8" -> 8 [] c = "9" -> 9 [] OTHER -> NaN

\* String.prototype.split(sep): the segments between separators
RECURSIVE SplitFrom(_, _, _, _)
SplitFrom(chars, sep, i, cur) ==
    IF i > Len(chars) THEN <<cur>>
    ELSE IF chars[i] = sep
         THEN <<cur>> \o SplitFrom(chars, sep, i + 1, <<>>)
         ELSE SplitFrom(chars, sep, i + 1, Append(cur, chars[i]))

Split(chars, sep) == SplitFrom(chars, sep, 1, <<>>)

\* parseFloat on a string of letters and digits: the value of the longest
\* prefix of digits, NaN when that prefix is empty
RECURSIVE ParseDigits(_, _, _)
ParseDigits(chars, i, acc) ==
    IF i > Len(chars) \/ DigitValue(chars[i]) = NaN
    THEN (IF i = 1 THEN NaN ELSE acc)
    ELSE ParseDigits(chars, i + 1, 10 * acc + DigitValue(chars[i]))

parseFloat(chars) == ParseDigits(chars, 1, 0)

\* parseFloat(responseId.split('_')[1] || '0')
parseResponseId(responseId) ==
    LET parts == Split(CharsOf(responseId), "_")
        seg   == IF Len(parts) >= 2 THEN parts[2] ELSE <<>>
    IN  parseFloat(IF seg = <<>> THEN <<"0">> ELSE seg)

-----------------------------------------------------------------------------
(* Events.                                                                 *)

Event(t, rid, d) == [type |-> t, response_id |-> rid, delta |-> d]
NoEvent == Event("", Undefined, "")

AudioTypes == {"response.audio.delta", "response.audio.done"}
CancelType == "response.audio.cancel"
TextTypes  == {"response.text.delta", "response.text.done"}

\* Response identifiers of the inbound events, the absent one included.
ResponseIds ==
    {"resp_5", "resp_7", "resp_100", "resp_abc", "resp_", "resp", Undefined}
Deltas == {"AAA=", "BBB="}

ServerEvents ==
    {Event("response.audio.delta", r, d) : r \in ResponseIds, d \in Deltas}
    \cup {Event(t, r, "") : t \in {"response.audio.done", CancelType,
                                    "response.text.done"}, r \in ResponseIds}
    \cup {Event("response.text.delta", r, "hi") : r \in ResponseIds}
    \cup {Event("session.updated", Undefined, "")}

InternalEvents == {Event("connected", Undefined, ""),
                   Event("disconnected", Undefined, "")}

\* The synthesized event of EventProcessor.handleError
ErrorEvent == Event("error", Undefined, "")

\* Keys listeners register under, and the listeners: h1 returns, hThrow throws.
ListenKeys == {"response.text.delta", "response.text.done",
               "response.audio.delta", "session.updated", "error"}
HandlerIds == {"h1", "hThrow"}
\* Handlers that throw: hThrow throws an Error object, hThrowNull throws null
Throws(h) == h \in {"hThrow", "hThrowNull"}
Thrown(h) == IF h = "hThrowNull" THEN "null" ELSE "Error"

-----------------------------------------------------------------------------
(* What one processor call invoked.                                        *)

SinkCall(name, arg) ==
    [kind |-> "sink", target |-> name, handler |-> "", arg |-> arg,
     event |-> NoEvent]
ListenerCall(key, h, e) ==
    [kind |-> "listener", target |-> key, handler |-> h, arg |-> "",
     event |-> e]
\* The assignment to lastInterruptTimestamp, where it stands among the calls
CursorAssigned ==
    [kind |-> "assign", target |-> "lastInterruptTimestamp", handler |-> "",
     arg |-> "", event |-> NoEvent]
\* The dispatch re-entered handleError beyond MaxErrorDepth: the recursion
\* has no base case and ends when the call stack is exhausted.
Unbounded == SinkCall("<unbounded>", "")
\* handleError failed reading `error.message` of a thrown null or undefined.
TypeError == SinkCall("<TypeError>", "")

HandlersOf(H, key) == IF key \in DOMAIN H THEN H[key] ELSE <<>>

\* An exception left the dispatch: handleError runs inside the catch block,
\* so whatever it throws leaves forEach, triggerEvent and every enclosing
\* dispatch, and no further handler is invoked.
Escapes(cs) == \E i \in 1..Len(cs) : cs[i] \in {Unbounded, TypeError}

\* EventProcessor.triggerEvent and EventProcessor.handleError: every handler
\* of the key is invoked in insertion order inside its own try/catch; a
\* throwing handler makes handleError dispatch a synthesized error event.
RECURSIVE triggerEvent(_, _, _, _)
RECURSIVE handleError(_, _, _)
triggerEvent(H, eventType, event, depth) ==
    LET hs == HandlersOf(H, eventType)
        RECURSIVE Each(_)
        Each(i) ==
            IF i > Len(hs) THEN <<>>
            ELSE LET caught == IF Throws(hs[i])
                               THEN handleError(H, Thrown(hs[i]), depth)
                               ELSE <<>>
                 IN  <<ListenerCall(eventType, hs[i], event)>>
                     \o caught
                     \o (IF Escapes(caught) THEN <<>> ELSE Each(i + 1))
    IN  Each(1)

handleError(H, error, depth) ==
    IF error = "null" THEN <<TypeError>>
    ELSE IF depth >= MaxErrorDepth THEN <<Unbounded>>
    ELSE triggerEvent(H, "error", ErrorEvent, depth + 1)

-----------------------------------------------------------------------------
(* RealtimeApiEventProcessor.                                              *)

\* Mutants of AudioPasses: the comparison reversed; the boundary made strict
AudioPassesReversed(last, timestamp) == JsLeq(timestamp, last)
AudioPassesStrict(last, timestamp) == JsLt(last, timestamp)

\* handleAudioResponse: the test that lets an audio event through
AudioPasses(last, timestamp) == JsLeq(last, timestamp)

\* Mutants of shouldFilterTextEvent: the comparison reversed; the boundary
\* made inclusive
shouldFilterTextEventReversed(last, responseId) ==
    JsLt(last, parseResponseId(responseId))
shouldFilterTextEventInclusive(last, responseId) ==
    JsLeq(parseResponseId(responseId), last)

\* shouldFilterTextEvent
shouldFilterTextEvent(last, responseId) ==
    JsGt(last, parseResponseId(responseId))

\* Mutant of InterruptTimestamp: the cancel leaves the cursor as it was
InterruptTimestampKept(last, responseId) == last

\* handleAudioInterrupt: the value assigned to lastInterruptTimestamp
InterruptTimestamp(last, responseId) == parseResponseId(responseId)

\* Mutant of handleAudioResponse: an audio event that passes is also
\* dispatched to the listeners of its type
handleAudioResponseDispatching(event) ==
    /\ calls' = IF AudioPasses(lastInterruptTimestamp,
                               parseResponseId(event.response_id))
                THEN triggerEvent(eventHandlers, event.type, event, 0)
                ELSE <<>>
    /\ threw' = FALSE
    /\ UNCHANGED lastInterruptTimestamp

\* Mutant of handleAudioResponse: an audio event moves the cursor
handleAudioResponseAdvancing(event) ==
    /\ calls' = <<>>
    /\ threw' = FALSE
    /\ lastInterruptTimestamp' = parseResponseId(event.response_id)

\* handleAudioResponse
handleAudioResponse(event) ==
    /\ calls' = IF /\ AudioPasses(lastInterruptTimestamp,
                                  parseResponseId(event.response_id))
                   /\ event.type = "response.audio.delta"
                   /\ onAudioChunk
                THEN <<SinkCall("onAudioChunk", event.delta)>>
                ELSE <<>>
    /\ threw' = FALSE
    /\ UNCHANGED lastInterruptTimestamp

\* Mutant of InterruptCalls: the fade-out sink invoked first
InterruptCallsFadeFirst(interruptSink, fadeOutSink) ==
    <<CursorAssigned>>
    \o (IF fadeOutSink THEN <<SinkCall("onAudioFadeOut", "")>> ELSE <<>>)
    \o (IF interruptSink THEN <<SinkCall("onAudioInterrupt", "")>> ELSE <<>>)

\* handleAudioInterrupt: the assignment, this.onAudioInterrupt?.(), then
\* this.onAudioFadeOut?.()
InterruptCalls(interruptSink, fadeOutSink) ==
    <<CursorAssigned>>
    \o (IF interruptSink THEN <<SinkCall("onAudioInterrupt", "")>> ELSE <<>>)
    \o (IF fadeOutSink THEN <<SinkCall("onAudioFadeOut", "")>> ELSE <<>>)

\* handleAudioInterrupt
handleAudioInterrupt(event) ==
    /\ lastInterruptTimestamp' =
           InterruptTimestamp(lastInterruptTimestamp, event.response_id)
    /\ calls' = InterruptCalls(onAudioInterrupt, onAudioFadeOut)
    /\ threw' = FALSE

\* processServerEvent.  An audio, cancel or text event without response_id
\* fails in parseResponseId (split of undefined) before any effect.
processServerEvent(event) ==
    /\ lastEvent' = event
    /\ prevTimestamp' = lastInterruptTimestamp
    /\ IF /\ event.type \in AudioTypes \cup {CancelType} \cup TextTypes
          /\ event.response_id = Undefined
       THEN /\ threw' = TRUE
            /\ calls' = <<>>
            /\ UNCHANGED lastInterruptTimestamp
       ELSE IF event.type \in AudioTypes THEN handleAudioResponse(event)
       ELSE IF event.type = CancelType THEN handleAudioInterrupt(event)
       ELSE IF /\ event.type \in TextTypes
               /\ shouldFilterTextEvent(lastInterruptTimestamp,
                                        event.response_id)
       THEN /\ calls' = <<>>
            /\ threw' = FALSE
            /\ UNCHANGED lastInterruptTimestamp
       ELSE /\ calls' = triggerEvent(eventHandlers, event.type, event, 0)
            /\ threw' = Escapes(calls')
            /\ UNCHANGED lastInterruptTimestamp
    /\ UNCHANGED <<onAudioChunk, onAudioInterrupt, onAudioFadeOut,
                   eventHandlers>>

\* processInternalEvent
processInternalEvent(event) ==
    /\ lastEvent' = event
    /\ prevTimestamp' = lastInterruptTimestamp
    /\ calls' = triggerEvent(eventHandlers, event.type, event, 0)
    /\ threw' = Escapes(calls')
    /\ UNCHANGED procVars

\* The operation just performed was not a process* call: nothing to observe
NoCall ==
    /\ lastEvent' = NoEvent
    /\ prevTimestamp' = lastInterruptTimestamp
    /\ calls' = <<>>
    /\ threw' = FALSE

\* Number of registrations held by the handler map
Registrations(H) ==
    Cardinality({ki \in (DOMAIN H) \X (1..(MaxListeners + 1)) :
                    ki[2] <= Len(H[ki[1]])})

InSeq(x, s) == \E i \in 1..Len(s) : s[i] = x

\* EventProcessor.on: Set.add keeps a handler already present where it is
on(eventType, handler) ==
    /\ Registrations(eventHandlers) < MaxListeners
    /\ ~InSeq(handler, eventHandlers[eventType])
    /\ eventHandlers' = [eventHandlers EXCEPT
                            ![eventType] = Append(@, handler)]
    /\ NoCall
    /\ UNCHANGED <<lastInterruptTimestamp, onAudioChunk, onAudioInterrupt,
                   onAudioFadeOut>>

\* EventProcessor.off
off(eventType, handler) ==
    /\ InSeq(handler, eventHandlers[eventType])
    /\ eventHandlers' = [eventHandlers EXCEPT
                            ![eventType] = SelectSeq(@, LAMBDA h : h # handler)]
    /\ NoCall
    /\ UNCHANGED <<lastInterruptTimestamp, onAudioChunk, onAudioInterrupt,
                   onAudioFadeOut>>

\* resetInterruptTimestamp
resetInterruptTimestamp ==
    /\ lastInterruptTimestamp # 0
    /\ lastInterruptTimestamp' = 0
    /\ NoCall
    /\ UNCHANGED <<onAudioChunk, onAudioInterrupt, onAudioFadeOut,
                   eventHandlers>>

\* setAudioChunkCallback
setAudioChunkCallback ==
    /\ ~onAudioChunk
    /\ onAudioChunk' = TRUE
    /\ NoCall
    /\ UNCHANGED <<lastInterruptTimestamp, onAudioInterrupt, onAudioFadeOut,
                   eventHandlers>>

\* setAudioInterruptCallback
setAudioInterruptCallback ==
    /\ ~onAudioInterrupt
    /\ onAudioInterrupt' = TRUE
    /\ NoCall
    /\ UNCHANGED <<lastInterruptTimestamp, onAudioChunk, onAudioFadeOut,
                   eventHandlers>>

\* setAudioFadeOutCallback
setAudioFadeOutCallback ==
    /\ ~onAudioFadeOut
    /\ onAudioFadeOut' = TRUE
    /\ NoCall
    /\ UNCHANGED <<lastInterruptTimestamp, onAudioChunk, onAudioInterrupt,
                   eventHandlers>>

-----------------------------------------------------------------------------
(* Initial states.                                                         *)

Calls == 1..MaxEndCalls

\* new RealtimeApiEventProcessor({onSendEvent}): cursor 0, no sink, no listener
ProcInit ==
    /\ lastInterruptTimestamp = 0
    /\ onAudioChunk = FALSE
    /\ onAudioInterrupt = FALSE
    /\ onAudioFadeOut = FALSE
    /\ eventHandlers = [k \in ListenKeys |-> <<>>]

ObsInit ==
    /\ lastEvent = NoEvent
    /\ prevTimestamp = 0
    /\ calls = <<>>
    /\ threw = FALSE

\* `private volume: number = 1`, in hundredths
FullVolume == 100
\* context.createGain(): a GainNode starts with gain 1, in hundredths
DefaultGain == 100

\* ws.onmessage: whether the payload decoded (JSON.parse) and whether the
\* callback reported a failure through Conversation.handleError
Message(decoded, reported) == [decoded |-> decoded, reported |-> reported]
NoMessage == Message(FALSE, FALSE)

\* new Conversation(config): the field initialisers and the constructor; the
\* observation callback is whatever the configuration carries
ConvInit ==
    /\ audioInput = "null"
    /\ audioOutput = "null"
    /\ ws = "null"
    /\ sock = "none"
    /\ isConnected = FALSE
    /\ pcInit = "start"
    /\ pcErr = "idle"
    /\ pcEnd = [c \in Calls |-> "idle"]
    /\ kind = [c \in Calls |-> "endSession"]
    /\ stepFailed = [c \in Calls |-> FALSE]
    /\ reports = [c \in Calls |-> 0]
    /\ sequential = [c \in Calls |-> FALSE]
    /\ connectedAtStart = [c \in Calls |-> FALSE]
    /\ internalLog = <<>>
    /\ closeCalls = [d \in {"input", "output"} |-> 0]
    /\ isMuted = FALSE
    /\ volume = FullVolume
    /\ sendArg = "none"
    /\ sendLog = <<>>
    /\ sendResult = "none"
    /\ inputMuted = FALSE
    /\ gain = DefaultGain
    /\ lastMessage = NoMessage
    /\ requestedMute = FALSE
    /\ isProcessing = FALSE
    /\ interrupted = FALSE
    /\ fadeTimers = <<>>
    /\ renderLog = <<>>

Sessions == 1..MaxSessions
HookCalls == 1..MaxHookCalls

\* useConversation before any call: the ref is null, no session exists
HookInit ==
    /\ conversationRef = 0
    /\ created = 0
    /\ inputOf = [s \in Sessions |-> "null"]
    /\ outputOf = [s \in Sessions |-> "null"]
    /\ hookOp = [c \in HookCalls |-> "none"]
    /\ hookPc = [c \in HookCalls |-> "idle"]
    /\ hookTarget = [c \in HookCalls |-> 0]
    /\ hookNew = [c \in HookCalls |-> 0]

-----------------------------------------------------------------------------
(* The event processor on its own: any inbound event, any registration.    *)

InitProcessor ==
    ProcInit /\ ObsInit /\ history = <<>> /\ ConvInit /\ onSendEvent = TRUE
    /\ HookInit

NextProcessor ==
    \/ \E e \in ServerEvents :
           processServerEvent(e) /\ UNCHANGED <<history, convVars>>
    \/ \E e \in InternalEvents :
           processInternalEvent(e) /\ UNCHANGED <<history, convVars>>
    \/ \E k \in ListenKeys, h \in HandlerIds :
           on(k, h) /\ UNCHANGED <<history, convVars>>
    \/ \E k \in ListenKeys, h \in HandlerIds :
           off(k, h) /\ UNCHANGED <<history, convVars>>
    \/ resetInterruptTimestamp /\ UNCHANGED <<history, convVars>>
    \/ setAudioChunkCallback /\ UNCHANGED <<history, convVars>>
    \/ setAudioInterruptCallback /\ UNCHANGED <<history, convVars>>
    \/ setAudioFadeOutCallback /\ UNCHANGED <<history, convVars>>

SpecProcessor == InitProcessor /\ [][NextProcessor]_vars

-----------------------------------------------------------------------------
(* The inbound stream in arrival order: a processor with the audio-chunk   *)
(* sink configured and one text listener, fed event after event.           *)

OrderingIds == {"resp_5", "resp_6", "resp_7", "resp_8"}

OrderingEvents ==
    {Event("response.audio.delta", r, "AAA=") : r \in OrderingIds}
    \cup {Event("response.text.delta", r, "hi") : r \in OrderingIds}
    \cup {Event(CancelType, r, "") : r \in OrderingIds}

InitOrdering ==
    /\ lastInterruptTimestamp = 0
    /\ onAudioChunk = TRUE
    /\ onAudioInterrupt = FALSE
    /\ onAudioFadeOut = TRUE
    /\ eventHandlers = [k \in ListenKeys |->
                           IF k = "response.text.delta" THEN <<"h1">> ELSE <<>>]
    /\ ObsInit
    /\ history = <<>>
    /\ ConvInit
    /\ onSendEvent = TRUE
    /\ HookInit

\* ws.onmessage handing the next message of the stream to the processor
Receive(e) ==
    /\ Len(history) < MaxHistory
    /\ processServerEvent(e)
    /\ history' = Append(history, [event |-> e, cursor |-> lastInterruptTimestamp,
                                   calls |-> calls'])
    /\ UNCHANGED convVars

NextOrdering == \E e \in OrderingEvents : Receive(e)

SpecOrdering == InitOrdering /\ [][NextOrdering]_vars

-----------------------------------------------------------------------------
(* Conversation: start, transport callbacks, teardown.  Every `await` is a  *)
(* point where other callbacks run, so an async function is one action per *)
(* stretch between awaits.                                                 *)

\* How a device operation awaited by the session can end.  The devices are
\* external: create() and close() resolve or reject as the browser decides
\* (close() of an AudioContext that is already closed is one rejecting case).
Outcomes == {"ok", "fail"}

InternalEntry(t, origin, c) == [type |-> t, by |-> origin, call |-> c]

\* this.eventProcessor.processInternalEvent({type}) as seen from the session
Dispatch(t, origin, c) ==
    internalLog' = Append(internalLog, InternalEntry(t, origin, c))

Finished(c) == pcEnd[c] \in {"resolved", "rejected"}
InFlight(c) == pcEnd[c] \in {"awaitInput", "awaitOutput"}

\* initialize: await AudioOutput.create(...)
initializeOutput(outcome) ==
    /\ pcInit = "start"
    /\ IF outcome = "ok"
       THEN audioOutput' = "open" /\ gain' = DefaultGain
            /\ pcInit' = "createInput"
       ELSE audioOutput' = audioOutput /\ gain' = gain
            /\ pcInit' = "rejected"
    /\ UNCHANGED inputMuted
    /\ UNCHANGED <<audioInput, ws, sock, isConnected, pcErr, pcEnd, kind,
                   stepFailed, reports, sequential, connectedAtStart,
                   internalLog, closeCalls>>

\* initialize: await AudioInput.create(...), the mute flag handed to the new
\* capture device when it is set, then initializeWebSocket up to
\* the construction of the socket and the registration of its callbacks.
\* `new WebSocket(url)` may throw (socket = "fail"): initializeWebSocket's
\* catch rejects, and initialize's catch reports and rethrows.
initializeInput(outcome, socket) ==
    /\ pcInit = "createInput"
    /\ IF outcome = "ok"
       THEN /\ audioInput' = "open"
            /\ inputMuted' = isMuted
            /\ IF socket = "ok"
               THEN ws' = "set" /\ sock' = "connecting"
                    /\ pcInit' = "connecting"
               ELSE pcInit' = "rejected" /\ UNCHANGED <<ws, sock>>
       ELSE /\ pcInit' = "rejected"
            /\ UNCHANGED <<audioInput, ws, sock, inputMuted>>
    /\ UNCHANGED gain
    /\ UNCHANGED <<audioOutput, isConnected, pcErr, pcEnd, kind, stepFailed,
                   reports, sequential, connectedAtStart, internalLog,
                   closeCalls>>

\* Mutant of onopen: the start promise is resolved although the callback set
\* no flag and dispatched nothing
onopenSilent ==
    /\ UNCHANGED deviceVars
    /\ sock = "connecting"
    /\ sock' = "open"
    /\ pcInit' = "resolved"
    /\ UNCHANGED <<audioInput, audioOutput, ws, isConnected, pcErr, pcEnd,
                   kind, stepFailed, reports, sequential, connectedAtStart,
                   internalLog, closeCalls>>

\* ws.onopen.  resolve() settles initializeWebSocket's promise; initialize
\* and startSession continue in microtasks of the same task, before any
\* other transport callback can run, so the caller's promise resolves here.
onopen ==
    /\ UNCHANGED deviceVars
    /\ sock = "connecting"
    /\ sock' = "open"
    /\ isConnected' = TRUE
    /\ Dispatch("connected", "onopen", 0)
    /\ pcInit' = "resolved"
    /\ UNCHANGED <<audioInput, audioOutput, ws, pcErr, pcEnd, kind,
                   stepFailed, reports, sequential, connectedAtStart,
                   closeCalls>>

\* ws.onclose: the close event follows an error, a close() of the socket, or
\* the peer closing the connection
onclose ==
    /\ UNCHANGED deviceVars
    /\ sock \in {"open", "closing", "failed"}
    /\ sock' = "closed"
    /\ isConnected' = FALSE
    /\ Dispatch("disconnected", "onclose", 0)
    /\ UNCHANGED <<audioInput, audioOutput, ws, pcInit, pcErr, pcEnd, kind,
                   stepFailed, reports, sequential, connectedAtStart,
                   closeCalls>>

\* ws.onerror up to its first await: the flag is reset and the capture
\* device's close() is invoked
onerror ==
    /\ UNCHANGED deviceVars
    /\ sock \in {"connecting", "open"}
    /\ sock' = "failed"
    /\ isConnected' = FALSE
    /\ closeCalls' = [closeCalls EXCEPT !["input"] = @ + 1]
    /\ pcErr' = "awaitInput"
    /\ UNCHANGED <<audioInput, audioOutput, ws, pcInit, pcEnd, kind,
                   stepFailed, reports, sequential, connectedAtStart,
                   internalLog>>

\* ws.onerror after `await this.audioInput?.close()`
onerrorAfterInput(outcome) ==
    /\ UNCHANGED deviceVars
    /\ pcErr = "awaitInput"
    /\ IF outcome = "ok"
       THEN /\ audioInput' = "closed"
            /\ closeCalls' = [closeCalls EXCEPT !["output"] = @ + 1]
            /\ pcErr' = "awaitOutput"
       ELSE /\ pcErr' = "aborted"
            /\ UNCHANGED <<audioInput, closeCalls>>
    /\ UNCHANGED <<audioOutput, ws, sock, isConnected, pcInit, pcEnd, kind,
                   stepFailed, reports, sequential, connectedAtStart,
                   internalLog>>

\* ws.onerror after `await this.audioOutput?.close()`: handleError, then
\* reject(error), which settles the start promise only if it is still pending
onerrorAfterOutput(outcome) ==
    /\ UNCHANGED deviceVars
    /\ pcErr = "awaitOutput"
    /\ IF outcome = "ok"
       THEN /\ audioOutput' = "closed"
            /\ pcErr' = "done"
            /\ pcInit' = IF pcInit = "connecting" THEN "rejected" ELSE pcInit
       ELSE /\ pcErr' = "aborted"
            /\ UNCHANGED <<audioOutput, pcInit>>
    /\ UNCHANGED <<audioInput, ws, sock, isConnected, pcEnd, kind, stepFailed,
                   reports, sequential, connectedAtStart, internalLog,
                   closeCalls>>

\* Mutant of EndCatch: close() lets the failure of endSession through
EndCatchRethrown(k) == "rejected"

\* How a call ends when a teardown step failed: endSession's catch reports
\* and rethrows; close() catches that, reports again and returns.
EndCatch(k) == IF k = "close" THEN "resolved" ELSE "rejected"

\* Number of handleError reports such a call makes
EndReports(k) == IF k = "close" THEN 2 ELSE 1

\* A teardown step of call c failed: control goes to the catch block
EndFailed(c) ==
    /\ stepFailed' = [stepFailed EXCEPT ![c] = TRUE]
    /\ reports' = [reports EXCEPT ![c] = @ + EndReports(kind[c])]
    /\ pcEnd' = [pcEnd EXCEPT ![c] = EndCatch(kind[c])]

\* endSession() (k = "endSession") or close() (k = "close") up to the first
\* await.  The caller holds the session only once startSession has resolved.
endSession(c, k) ==
    /\ UNCHANGED deviceVars
    /\ pcInit = "resolved"
    /\ pcEnd[c] = "idle"
    /\ \A d \in Calls : d < c => pcEnd[d] # "idle"
    /\ kind' = [kind EXCEPT ![c] = k]
    /\ sequential' = [sequential EXCEPT
                         ![c] = \A d \in Calls : d # c => ~InFlight(d)]
    /\ connectedAtStart' = [connectedAtStart EXCEPT ![c] = isConnected]
    /\ closeCalls' = [closeCalls EXCEPT !["input"] = @ + 1]
    /\ pcEnd' = [pcEnd EXCEPT ![c] = "awaitInput"]
    /\ UNCHANGED <<audioInput, audioOutput, ws, sock, isConnected, pcInit,
                   pcErr, stepFailed, reports, internalLog>>

\* endSession after `await this.audioInput?.close()`
endSessionAfterInput(c, outcome) ==
    /\ UNCHANGED deviceVars
    /\ pcEnd[c] = "awaitInput"
    /\ IF outcome = "ok"
       THEN /\ audioInput' = "closed"
            /\ closeCalls' = [closeCalls EXCEPT !["output"] = @ + 1]
            /\ pcEnd' = [pcEnd EXCEPT ![c] = "awaitOutput"]
            /\ UNCHANGED <<stepFailed, reports>>
       ELSE /\ EndFailed(c)
            /\ UNCHANGED <<audioInput, closeCalls>>
    /\ UNCHANGED <<audioOutput, ws, sock, isConnected, pcInit, pcErr, kind,
                   sequential, connectedAtStart, internalLog>>

\* endSession after `await this.audioOutput?.close()`: the socket is closed
\* and forgotten, the flag reset, `disconnected` dispatched
endSessionAfterOutput(c, outcome) ==
    /\ UNCHANGED deviceVars
    /\ pcEnd[c] = "awaitOutput"
    /\ IF outcome = "ok"
       THEN /\ audioOutput' = "closed"
            /\ sock' = IF ws = "set" /\ sock \in {"connecting", "open"}
                       THEN "closing" ELSE sock
            /\ ws' = "null"
            /\ isConnected' = FALSE
            /\ Dispatch("disconnected", "endSession", c)
            /\ pcEnd' = [pcEnd EXCEPT ![c] = "resolved"]
            /\ UNCHANGED <<stepFailed, reports>>
       ELSE /\ EndFailed(c)
            /\ UNCHANGED <<audioOutput, ws, sock, isConnected, internalLog>>
    /\ UNCHANGED <<audioInput, pcInit, pcErr, kind, sequential,
                   connectedAtStart, closeCalls>>

\* getConnectionStatus
getConnectionStatus == isConnected

onlySession ==
    UNCHANGED <<procVars, obsVars, history, sendVars, hookVars, auxVars>>

InitSession ==
    ProcInit /\ ObsInit /\ history = <<>> /\ ConvInit /\ onSendEvent = TRUE
    /\ HookInit

NextSession ==
    \/ \E o \in Outcomes : initializeOutput(o) /\ onlySession
    \/ \E o \in Outcomes, k \in Outcomes :
           initializeInput(o, k) /\ onlySession
    \/ onopen /\ onlySession
    \/ onclose /\ onlySession
    \/ onerror /\ onlySession
    \/ \E o \in Outcomes : onerrorAfterInput(o) /\ onlySession
    \/ \E o \in Outcomes : onerrorAfterOutput(o) /\ onlySession
    \/ \E c \in Calls, k \in {"endSession", "close"} :
           endSession(c, k) /\ onlySession
    \/ \E c \in Calls, o \in Outcomes :
           endSessionAfterInput(c, o) /\ onlySession
    \/ \E c \in Calls, o \in Outcomes :
           endSessionAfterOutput(c, o) /\ onlySession

SpecSession == InitSession /\ [][NextSession]_vars

-----------------------------------------------------------------------------
(* Conversation: outbound events, mute and volume, on one session that is  *)
(* started, hit by transport callbacks and ended once.                     *)

AppendType == "input_audio_buffer.append"
ClientEventTypes == {"response.create", "session.update", AppendType}

\* One thing a sendEvent call did, with the event it did it with
Effect(op, event) == [op |-> op, event |-> event]

\* Mutant of CanSend: the connection flag is not consulted
CanSendIgnoringFlag(w, flag) == w # "null"

\* sendEvent: the negation of `!this.ws || !this.isConnected`
CanSend(w, flag) == ~(w = "null" \/ ~flag)

\* sendEvent.  `this.ws.send(JSON.stringify(event))` returns or throws
\* (transmit = "fail": JSON.stringify rejects the value, or send() does);
\* a throw leaves the function before the observation callback.
sendEvent(event, transmit) ==
    /\ sendArg' = event
    /\ IF ~CanSend(ws, isConnected)
       THEN /\ sendResult' = "NotConnected"
            /\ sendLog' = <<>>
       ELSE IF transmit = "fail"
       THEN /\ sendResult' = "SendFailed"
            /\ sendLog' = <<Effect("ws.send", event)>>
       ELSE /\ sendResult' = "returned"
            /\ sendLog' = <<Effect("ws.send", event)>>
                           \o (IF event # AppendType /\ onSendEvent
                               THEN <<Effect("onSendEvent", event)>>
                               ELSE <<>>)
    /\ UNCHANGED <<sessionVars, deviceVars, onSendEvent, isMuted, volume>>

\* updateSession
updateSession(transmit) == sendEvent("session.update", transmit)

\* The capture worklet's onmessage: sendAudioBuffer while the flag is set
sendAudioBuffer(transmit) ==
    /\ audioInput = "open"
    /\ isConnected
    /\ sendEvent(AppendType, transmit)

\* setMuted
setMuted(muted) ==
    /\ isMuted' = muted
    /\ inputMuted' = IF audioInput # "null" THEN muted ELSE inputMuted
    /\ UNCHANGED <<sessionVars, gain, onSendEvent, volume, sendArg, sendLog,
                   sendResult>>

\* Arguments handed to setVolume, in hundredths: below 0, the two ends of
\* the range, inside it, above 1, and NaN
VolumeArgs == {0 - 50, 0, 50, FullVolume, 150, NaN}

\* Math.min and Math.max: NaN as soon as one argument is NaN
Min(a, b) == IF a = NaN \/ b = NaN THEN NaN ELSE IF a <= b THEN a ELSE b
Max(a, b) == IF a = NaN \/ b = NaN THEN NaN ELSE IF a >= b THEN a ELSE b

\* Math.max(0, Math.min(1, volume)) without the lower bound
ClampUpperOnly(v) == Min(FullVolume, v)

\* setVolume: Math.max(0, Math.min(1, volume))
Clamp(v) == Max(0, Min(FullVolume, v))

\* setVolume.  The value setter of the gain parameter takes a finite float
\* and throws a TypeError on NaN after this.volume has been assigned.
setVolume(v) ==
    /\ volume' = Clamp(v)
    /\ gain' = IF audioOutput # "null" /\ Clamp(v) # NaN
               THEN Clamp(v) ELSE gain
    /\ UNCHANGED <<sessionVars, inputMuted, onSendEvent, isMuted, sendArg,
                   sendLog, sendResult>>

\* getVolume
getVolume == volume

onlyConversation ==
    UNCHANGED <<procVars, obsVars, history, hookVars, auxVars>>

InitSend ==
    ProcInit /\ ObsInit /\ history = <<>> /\ ConvInit
    /\ onSendEvent \in BOOLEAN
    /\ HookInit

NextSend ==
    \/ \E o \in Outcomes : initializeOutput(o) /\ onlySession
    \/ \E o \in Outcomes, k \in Outcomes :
           initializeInput(o, k) /\ onlySession
    \/ onopen /\ onlySession
    \/ onclose /\ onlySession
    \/ onerror /\ onlySession
    \/ \E o \in Outcomes : onerrorAfterInput(o) /\ onlySession
    \/ \E o \in Outcomes : onerrorAfterOutput(o) /\ onlySession
    \/ endSession(1, "endSession") /\ onlySession
    \/ \E o \in Outcomes : endSessionAfterInput(1, o) /\ onlySession
    \/ \E o \in Outcomes : endSessionAfterOutput(1, o) /\ onlySession
    \/ \E e \in ClientEventTypes, t \in Outcomes :
           sendEvent(e, t) /\ onlyConversation
    \/ \E t \in Outcomes : updateSession(t) /\ onlyConversation
    \/ \E t \in Outcomes : sendAudioBuffer(t) /\ onlyConversation
    \/ \E m \in BOOLEAN : setMuted(m) /\ onlyConversation
    \/ \E v \in VolumeArgs : setVolume(v) /\ onlyConversation

SpecSend == InitSend /\ [][NextSend]_vars

-----------------------------------------------------------------------------
(* Listener dispatch: a processor holding any registrations, several on    *)
(* one key included, handed server and internal events.                    *)

\* Registrations held in total by the processors of this specification.
MaxRegistrations == 3

\* Keys of normalizeEventType that the cursor never filters
DispatchKeys == {"session.updated", "connected", "error"}

\* h1 and h2 return, hThrow throws an Error, hThrowNull throws null
DispatchHandlers == HandlerIds \cup {"h2", "hThrowNull"}

\* What a Set of handlers can hold: distinct handlers in insertion order
HandlerSeqs ==
    {hs \in UNION {[1..n -> DispatchHandlers] : n \in 0..MaxRegistrations} :
        \A i, j \in DOMAIN hs : hs[i] = hs[j] => i = j}

RegistrationsIn(cfg) ==
    Cardinality({ki \in (DOMAIN cfg) \X (1..MaxRegistrations) :
                    ki[2] <= Len(cfg[ki[1]])})

\* A server event of type "error" (its third slot tells it from the
\* synthesized one) and a pass-through event
DispatchEvents == {Event("session.updated", Undefined, ""),
                   Event("error", Undefined, "server_error")}

InitDispatch ==
    /\ lastInterruptTimestamp = 0
    /\ onAudioChunk = FALSE
    /\ onAudioInterrupt = FALSE
    /\ onAudioFadeOut = FALSE
    /\ \E cfg \in [DispatchKeys -> HandlerSeqs] :
           /\ RegistrationsIn(cfg) <= MaxRegistrations
           /\ eventHandlers = [k \in ListenKeys \cup DispatchKeys |->
                                  IF k \in DispatchKeys THEN cfg[k] ELSE <<>>]
    /\ ObsInit
    /\ history = <<>>
    /\ ConvInit
    /\ onSendEvent = TRUE
    /\ HookInit

NextDispatch ==
    \/ \E e \in DispatchEvents :
           processServerEvent(e) /\ UNCHANGED <<history, convVars>>
    \/ \E e \in InternalEvents :
           processInternalEvent(e) /\ UNCHANGED <<history, convVars>>

SpecDispatch == InitDispatch /\ [][NextDispatch]_vars

-----------------------------------------------------------------------------
(* useConversation: hook calls startSession and endSession overlapping on  *)
(* the sessions they end and create.  A session is followed through its    *)
(* two devices; Conversation.endSession and Conversation.initialize are    *)
(* taken one await at a time as in the session specification, and a        *)
(* transport error while connecting is taken on the branch of ws.onerror   *)
(* where both close() calls resolve.                                       *)

HookSet(f, c, v) == [f EXCEPT ![c] = v]

\* A hook call is over (returned or threw) or was never made
HookQuiet(c) == hookPc[c] \in {"idle", "resolved", "rejected"}

\* ConversationFactory.createRealtimeApiConversation up to the first await
\* of Conversation.initialize: a new Conversation, AudioOutput.create pending
Create(c) ==
    /\ created < MaxSessions
    /\ created' = created + 1
    /\ hookNew' = HookSet(hookNew, c, created + 1)
    /\ hookPc' = HookSet(hookPc, c, "createOutput")

\* conversationRef.current.endSession() rejected: hook startSession's catch
\* records the error and rethrows, hook endSession's catch only logs
HookEndRejected(c) ==
    hookPc' = HookSet(hookPc, c, IF hookOp[c] = "start" THEN "rejected"
                                 ELSE "resolved")

\* hook startSession up to its first await
hookStartSession(c) ==
    /\ hookPc[c] = "idle"
    /\ \A d \in HookCalls : d < c => hookPc[d] # "idle"
    /\ hookOp' = HookSet(hookOp, c, "start")
    /\ IF conversationRef # 0
       THEN /\ hookTarget' = HookSet(hookTarget, c, conversationRef)
            /\ hookPc' = HookSet(hookPc, c, "endInput")
            /\ UNCHANGED <<created, hookNew>>
       ELSE /\ Create(c)
            /\ UNCHANGED hookTarget
    /\ UNCHANGED <<conversationRef, inputOf, outputOf>>

\* hook endSession up to its first await
hookEndSession(c) ==
    /\ hookPc[c] = "idle"
    /\ \A d \in HookCalls : d < c => hookPc[d] # "idle"
    /\ hookOp' = HookSet(hookOp, c, "end")
    /\ IF conversationRef # 0
       THEN /\ hookTarget' = HookSet(hookTarget, c, conversationRef)
            /\ hookPc' = HookSet(hookPc, c, "endInput")
       ELSE /\ hookPc' = HookSet(hookPc, c, "resolved")
            /\ UNCHANGED hookTarget
    /\ UNCHANGED <<conversationRef, created, inputOf, outputOf, hookNew>>

\* Conversation.endSession of the old session after
\* `await this.audioInput?.close()`
hookEndAfterInput(c, outcome) ==
    /\ hookPc[c] = "endInput"
    /\ IF outcome = "ok"
       THEN /\ inputOf' = HookSet(inputOf, hookTarget[c], "closed")
            /\ hookPc' = HookSet(hookPc, c, "endOutput")
       ELSE /\ HookEndRejected(c)
            /\ UNCHANGED inputOf
    /\ UNCHANGED <<conversationRef, created, outputOf, hookOp, hookTarget,
                   hookNew>>

\* Conversation.endSession of the old session after
\* `await this.audioOutput?.close()`, and the hook's continuation: hook
\* endSession clears the ref, hook startSession goes on to the factory
hookEndAfterOutput(c, outcome) ==
    /\ hookPc[c] = "endOutput"
    /\ IF outcome = "ok"
       THEN /\ outputOf' = HookSet(outputOf, hookTarget[c], "closed")
            /\ IF hookOp[c] = "end"
               THEN /\ conversationRef' = 0
                    /\ hookPc' = HookSet(hookPc, c, "resolved")
                    /\ UNCHANGED <<created, hookNew>>
               ELSE /\ Create(c)
                    /\ UNCHANGED conversationRef
       ELSE /\ HookEndRejected(c)
            /\ UNCHANGED <<conversationRef, created, outputOf, hookNew>>
    /\ UNCHANGED <<inputOf, hookOp, hookTarget>>

\* Conversation.initialize of the new session after AudioOutput.create
hookCreateOutput(c, outcome) ==
    /\ hookPc[c] = "createOutput"
    /\ IF outcome = "ok"
       THEN /\ outputOf' = HookSet(outputOf, hookNew[c], "open")
            /\ hookPc' = HookSet(hookPc, c, "createInput")
       ELSE /\ hookPc' = HookSet(hookPc, c, "rejected")
            /\ UNCHANGED outputOf
    /\ UNCHANGED <<conversationRef, created, inputOf, hookOp, hookTarget,
                   hookNew>>

\* Conversation.initialize of the new session after AudioInput.create
hookCreateInput(c, outcome) ==
    /\ hookPc[c] = "createInput"
    /\ IF outcome = "ok"
       THEN /\ inputOf' = HookSet(inputOf, hookNew[c], "open")
            /\ hookPc' = HookSet(hookPc, c, "connecting")
       ELSE /\ hookPc' = HookSet(hookPc, c, "rejected")
            /\ UNCHANGED inputOf
    /\ UNCHANGED <<conversationRef, created, outputOf, hookOp, hookTarget,
                   hookNew>>

\* The new session's socket opens (ws.onopen: startSession resolves and the
\* hook saves the instance) or fails (ws.onerror: devices closed, rejection)
hookConnect(c, outcome) ==
    /\ hookPc[c] = "connecting"
    /\ IF outcome = "ok"
       THEN /\ conversationRef' = hookNew[c]
            /\ hookPc' = HookSet(hookPc, c, "resolved")
            /\ UNCHANGED <<inputOf, outputOf>>
       ELSE /\ inputOf' = HookSet(inputOf, hookNew[c], "closed")
            /\ outputOf' = HookSet(outputOf, hookNew[c], "closed")
            /\ hookPc' = HookSet(hookPc, c, "rejected")
            /\ UNCHANGED conversationRef
    /\ UNCHANGED <<created, hookOp, hookTarget, hookNew>>

onlyHook ==
    UNCHANGED <<procVars, obsVars, history, sessionVars, sendVars, deviceVars,
                auxVars>>

\* The hook as mounted, or with one session already started through it
InitHook ==
    /\ ProcInit /\ ObsInit /\ history = <<>> /\ ConvInit
    /\ onSendEvent = TRUE
    /\ hookOp = [c \in HookCalls |-> "none"]
    /\ hookPc = [c \in HookCalls |-> "idle"]
    /\ hookTarget = [c \in HookCalls |-> 0]
    /\ hookNew = [c \in HookCalls |-> 0]
    /\ \/ /\ conversationRef = 0
          /\ created = 0
          /\ inputOf = [s \in Sessions |-> "null"]
          /\ outputOf = [s \in Sessions |-> "null"]
       \/ /\ conversationRef = 1
          /\ created = 1
          /\ inputOf = [s \in Sessions |-> IF s = 1 THEN "open" ELSE "null"]
          /\ outputOf = [s \in Sessions |-> IF s = 1 THEN "open" ELSE "null"]

NextHook ==
    \/ \E c \in HookCalls : hookStartSession(c) /\ onlyHook
    \/ \E c \in HookCalls : hookEndSession(c) /\ onlyHook
    \/ \E c \in HookCalls, o \in Outcomes :
           hookEndAfterInput(c, o) /\ onlyHook
    \/ \E c \in HookCalls, o \in Outcomes :
           hookEndAfterOutput(c, o) /\ onlyHook
    \/ \E c \in HookCalls, o \in Outcomes :
           hookCreateOutput(c, o) /\ onlyHook
    \/ \E c \in HookCalls, o \in Outcomes :
           hookCreateInput(c, o) /\ onlyHook
    \/ \E c \in HookCalls, o \in Outcomes : hookConnect(c, o) /\ onlyHook

SpecHook == InitHook /\ [][NextHook]_vars

-----------------------------------------------------------------------------
(* Inbound messages: a session whose processor has listeners, the `error`  *)
(* key included, receiving payloads that decode or do not.                 *)

InboundEvents ==
    {Event("session.updated", Undefined, ""),
     Event("response.text.delta", "resp_5", "hi"),
     Event("response.text.delta", "resp_100", "hi"),
     Event("response.text.delta", Undefined, "hi"),
     Event("response.text.done", "resp_5", ""),
     Event(CancelType, "resp_7", ""),
     Event(CancelType, Undefined, ""),
     Event("response.audio.delta", "resp_7", "AAA="),
     Event("response.audio.delta", Undefined, "AAA=")}

\* The listener the hook registers as onTextDone:
\* setState(prev => ({...prev, isProcessing: false}))
HookTextDone == "onTextDone"
InvokedTextDone(cs) ==
    \E i \in 1..Len(cs) :
        cs[i].kind = "listener" /\ cs[i].handler = HookTextDone

\* Mutant of onmessage: a failure of processServerEvent ends the connection
onmessageClosing(decodable, event) ==
    /\ sock = "open"
    /\ decodable
    /\ processServerEvent(event)
    /\ lastMessage' = Message(TRUE, threw')
    /\ isConnected' = (isConnected /\ ~threw')
    /\ sock' = IF threw' THEN "closing" ELSE sock
    /\ UNCHANGED <<history, audioInput, audioOutput, ws, pcInit, pcErr, pcEnd,
                   kind, stepFailed, reports, sequential, connectedAtStart,
                   internalLog, closeCalls, sendVars, deviceVars, hookVars,
                   requestedMute, isProcessing, interrupted, fadeTimers,
                   renderLog>>

\* ws.onmessage.  JSON.parse either yields the event the payload encodes or
\* throws; what processServerEvent throws is caught as well.  The catch
\* block logs and calls Conversation.handleError, which writes to the
\* console and reaches neither the processor nor the session state.
onmessage(decodable, event) ==
    /\ sock = "open"
    /\ IF decodable
       THEN /\ processServerEvent(event)
            /\ lastMessage' = Message(TRUE, threw')
            /\ isProcessing' = (isProcessing /\ ~InvokedTextDone(calls'))
       ELSE /\ lastEvent' = NoEvent
            /\ prevTimestamp' = lastInterruptTimestamp
            /\ calls' = <<>>
            /\ threw' = FALSE
            /\ lastMessage' = Message(FALSE, TRUE)
            /\ UNCHANGED <<procVars, isProcessing>>
    /\ UNCHANGED <<history, sessionVars, sendVars, deviceVars, hookVars,
                   requestedMute, interrupted, fadeTimers, renderLog>>

\* A processor with one listener on each of three keys, as the factory
\* registers them from config.eventHandlers, and the two sinks the factory
\* sets
InitInbound ==
    /\ lastInterruptTimestamp = 0
    /\ onAudioChunk = TRUE
    /\ onAudioInterrupt = FALSE
    /\ onAudioFadeOut = TRUE
    /\ eventHandlers = [k \in ListenKeys |->
                           IF k \in {"error", "session.updated",
                                     "response.text.delta"}
                           THEN <<"h1">> ELSE <<>>]
    /\ ObsInit
    /\ history = <<>>
    /\ ConvInit
    /\ onSendEvent = TRUE
    /\ HookInit

NextInbound ==
    \/ \E o \in Outcomes : initializeOutput(o) /\ onlySession
    \/ \E o \in Outcomes, k \in Outcomes :
           initializeInput(o, k) /\ onlySession
    \/ onopen /\ onlySession
    \/ onclose /\ onlySession
    \/ onerror /\ onlySession
    \/ \E o \in Outcomes : onerrorAfterInput(o) /\ onlySession
    \/ \E o \in Outcomes : onerrorAfterOutput(o) /\ onlySession
    \/ \E d \in BOOLEAN, e \in InboundEvents : onmessage(d, e)

SpecInbound == InitInbound /\ [][NextInbound]_vars

-----------------------------------------------------------------------------
(* Sessions created one after the other through the factory, each fed a    *)
(* stream of events; the processor variables are those of the session in   *)
(* use.                                                                    *)

FactoryEvents ==
    {Event(CancelType, "resp_7", ""), Event(CancelType, "resp_5", ""),
     Event("response.audio.delta", "resp_5", "AAA="),
     Event("response.text.delta", "resp_6", "hi")}

\* Mutant of createRealtimeApiConversation: the new session goes on with
\* the cursor of the processor used before
createRealtimeApiConversationReusing(start) ==
    /\ created < MaxSessions
    /\ IF start = "ok"
       THEN /\ created' = created + 1
            /\ onAudioChunk' = TRUE
            /\ onAudioInterrupt' = FALSE
            /\ onAudioFadeOut' = TRUE
            /\ eventHandlers' = [k \in ListenKeys |->
                                    IF k = "response.text.delta"
                                    THEN <<"h1">> ELSE <<>>]
            /\ lastEvent' = NoEvent
            /\ prevTimestamp' = lastInterruptTimestamp
            /\ calls' = <<>>
            /\ threw' = FALSE
            /\ UNCHANGED lastInterruptTimestamp
       ELSE UNCHANGED <<created, procVars, obsVars>>
    /\ UNCHANGED <<history, sessionVars, sendVars, deviceVars, auxVars,
                   conversationRef, inputOf, outputOf, hookOp, hookPc,
                   hookTarget, hookNew>>

\* ConversationFactory.createRealtimeApiConversation: a new
\* RealtimeApiEventProcessor (cursor 0, no sink), the configured handlers
\* registered, Conversation.startSession awaited, then the audio-chunk and
\* fade-out sinks set.  When the start fails there is no new session and the
\* one in use goes on with its own processor.
createRealtimeApiConversation(start) ==
    /\ created < MaxSessions
    /\ IF start = "ok"
       THEN /\ created' = created + 1
            /\ lastInterruptTimestamp' = 0
            /\ onAudioChunk' = TRUE
            /\ onAudioInterrupt' = FALSE
            /\ onAudioFadeOut' = TRUE
            /\ eventHandlers' = [k \in ListenKeys |->
                                    IF k = "response.text.delta"
                                    THEN <<"h1">> ELSE <<>>]
            /\ lastEvent' = NoEvent
            /\ prevTimestamp' = 0
            /\ calls' = <<>>
            /\ threw' = FALSE
       ELSE UNCHANGED <<created, procVars, obsVars>>
    /\ UNCHANGED <<history, sessionVars, sendVars, deviceVars, auxVars,
                   conversationRef, inputOf, outputOf, hookOp, hookPc,
                   hookTarget, hookNew>>

\* ws.onmessage of the session in use
ReceiveInSession(e) == created >= 1 /\ Receive(e)

InitFactory ==
    ProcInit /\ ObsInit /\ history = <<>> /\ ConvInit /\ onSendEvent = TRUE
    /\ HookInit

NextFactory ==
    \/ \E o \in Outcomes : createRealtimeApiConversation(o)
    \/ \E e \in FactoryEvents : ReceiveInSession(e)
    \/ resetInterruptTimestamp /\ UNCHANGED <<history, convVars>>

SpecFactory == InitFactory /\ [][NextFactory]_vars

-----------------------------------------------------------------------------
(* Mute through the hook: one session started and ended through            *)
(* useConversation, with setMuted called at any moment.                    *)

restOfHook == UNCHANGED <<created, inputOf, outputOf, hookOp, hookPc,
                          hookTarget, hookNew>>

\* The hook's startSession once the factory has resolved (ws.onopen):
\* conversationRef.current = conversation
hookStartResolved ==
    /\ onopen
    /\ conversationRef' = 1
    /\ restOfHook
    /\ UNCHANGED <<procVars, obsVars, history, sendVars, auxVars>>

\* The hook's endSession once Conversation.endSession has resolved or
\* rejected: the ref is cleared only when it resolved
hookEndResolved(outcome) ==
    /\ endSessionAfterOutput(1, outcome)
    /\ conversationRef' = IF outcome = "ok" THEN 0 ELSE conversationRef
    /\ restOfHook
    /\ UNCHANGED <<procVars, obsVars, history, sendVars, auxVars>>

\* The hook's setMuted: forwarded only when a session is referenced
hookSetMuted(muted) ==
    /\ requestedMute' = muted
    /\ IF conversationRef # 0
       THEN setMuted(muted)
       ELSE UNCHANGED <<sessionVars, sendVars, deviceVars>>
    /\ UNCHANGED <<procVars, obsVars, history, hookVars, lastMessage,
                   isProcessing, interrupted, fadeTimers, renderLog>>

\* The hook's setVolume: forwarded only when a session is referenced
hookSetVolume(v) ==
    /\ IF conversationRef # 0
       THEN setVolume(v)
       ELSE UNCHANGED <<sessionVars, sendVars, deviceVars>>
    /\ UNCHANGED <<procVars, obsVars, history, hookVars, auxVars>>

\* The hook's getMuted
hookGetMuted == IF conversationRef # 0 THEN isMuted ELSE FALSE

InitMute ==
    ProcInit /\ ObsInit /\ history = <<>> /\ ConvInit /\ onSendEvent = TRUE
    /\ HookInit

NextMute ==
    \/ \E o \in Outcomes : initializeOutput(o) /\ onlySession
    \/ \E o \in Outcomes, k \in Outcomes :
           initializeInput(o, k) /\ onlySession
    \/ hookStartResolved
    \/ onclose /\ onlySession
    \/ conversationRef # 0 /\ endSession(1, "endSession") /\ onlySession
    \/ \E o \in Outcomes : endSessionAfterInput(1, o) /\ onlySession
    \/ \E o \in Outcomes : hookEndResolved(o)
    \/ \E m \in BOOLEAN : hookSetMuted(m)
    \/ \E v \in VolumeArgs : hookSetVolume(v)

SpecMute == InitMute /\ [][NextMute]_vars

-----------------------------------------------------------------------------
(* The render path: chunks, fade-out and its restore timer.                *)
(* renderLog holds what the last step did to the render device, in order:  *)
(* the messages posted to its worklet port, "ramp" for a scheduled gain    *)
(* ramp and "gain" for a write of the gain value.                          *)

\* Pending restore timers the model allows
MaxFades == 2

\* exponentialRampToValueAtTime(0.0001, ...), in hundredths
RampTarget == 0

\* The render worklet's interrupted flag after one message on its port:
\* declare-interrupted sets it, clear-interrupted resets it
setInterrupted(flag, message) ==
    IF message = "interrupt" THEN TRUE
    ELSE IF message = "clearInterrupted" THEN FALSE
    ELSE flag

RECURSIVE AfterMessages(_, _)
\* The flag after a sequence of messages, delivered in the order posted
AfterMessages(flag, messages) ==
    IF messages = <<>> THEN flag
    ELSE AfterMessages(setInterrupted(flag, Head(messages)), Tail(messages))

\* addAudioBase64Chunk with the two postMessage calls exchanged
ChunkMessagesBufferFirst == <<"buffer", "clearInterrupted">>

\* addAudioBase64Chunk: postMessage clearInterrupted, postMessage buffer
ChunkMessages == <<"clearInterrupted", "buffer">>

\* addAudioBase64Chunk
addAudioBase64Chunk ==
    /\ IF audioOutput # "null"
       THEN /\ renderLog' = ChunkMessages
            /\ interrupted' = AfterMessages(interrupted, ChunkMessages)
       ELSE /\ renderLog' = <<>>
            /\ UNCHANGED interrupted
    /\ UNCHANGED <<procVars, obsVars, history, sessionVars, sendVars,
                   deviceVars, hookVars, lastMessage, requestedMute,
                   isProcessing, fadeTimers>>

\* fadeOutAudio: postMessage interrupt, the ramp towards 0.0001 over two
\* seconds, setTimeout(..., 2000).  gain holds the value the scheduled ramp
\* ends at.  The method returns with the timer pending.
FadeMessages == <<"interrupt", "ramp">>

fadeOutAudio ==
    /\ Len(fadeTimers) < MaxFades
    /\ IF audioOutput # "null"
       THEN /\ renderLog' = FadeMessages
            /\ interrupted' = AfterMessages(interrupted, FadeMessages)
            /\ gain' = RampTarget
            /\ fadeTimers' = Append(fadeTimers, pcEnd[1])
       ELSE /\ renderLog' = <<>>
            /\ UNCHANGED <<interrupted, gain, fadeTimers>>
    /\ UNCHANGED <<procVars, obsVars, history, sessionVars, sendVars,
                   inputMuted, hookVars, lastMessage, requestedMute,
                   isProcessing>>

\* The timer callback restoring the gain to the default instead
RestoredGainDefault == FullVolume

\* The timer callback: gain.value = this.volume
RestoredGain == volume

RestoreMessages == <<"gain", "clearInterrupted">>

\* The callback of fadeOutAudio's setTimeout.  Timers of equal delay fire
\* in the order they were set, and none is ever cancelled.  When the
\* volume is NaN the gain setter throws and the message is not posted.
fadeTimer ==
    /\ fadeTimers # <<>>
    /\ fadeTimers' = Tail(fadeTimers)
    /\ IF audioOutput # "null" /\ RestoredGain # NaN
       THEN /\ gain' = RestoredGain
            /\ renderLog' = RestoreMessages
            /\ interrupted' = AfterMessages(interrupted, RestoreMessages)
       ELSE /\ renderLog' = <<>>
            /\ UNCHANGED <<gain, interrupted>>
    /\ UNCHANGED <<procVars, obsVars, history, sessionVars, sendVars,
                   inputMuted, hookVars, lastMessage, requestedMute,
                   isProcessing>>

InitRender ==
    ProcInit /\ ObsInit /\ history = <<>> /\ ConvInit /\ onSendEvent = TRUE
    /\ HookInit

NextRender ==
    \/ \E o \in Outcomes : initializeOutput(o) /\ onlySession
    \/ \E o \in Outcomes, k \in Outcomes :
           initializeInput(o, k) /\ onlySession
    \/ onopen /\ onlySession
    \/ endSession(1, "endSession") /\ onlySession
    \/ \E o \in Outcomes : endSessionAfterInput(1, o) /\ onlySession
    \/ \E o \in Outcomes : endSessionAfterOutput(1, o) /\ onlySession
    \/ \E v \in VolumeArgs :
           pcInit = "resolved" /\ setVolume(v) /\ onlyConversation
    \/ addAudioBase64Chunk
    \/ fadeOutAudio
    \/ fadeTimer

SpecRender == InitRender /\ [][NextRender]_vars

-----------------------------------------------------------------------------
(* The processor as the hook configures it: listeners under the audio keys *)
(* (onAudioDelta, onAudioDone, and one under response.audio.cancel) next   *)
(* to the sinks.                                                           *)

\* Keys whose events processServerEvent hands to the audio path
AudioKeys == AudioTypes \cup {CancelType}

InitAudioKeys ==
    /\ lastInterruptTimestamp = 0
    /\ onAudioChunk \in BOOLEAN
    /\ onAudioInterrupt \in BOOLEAN
    /\ onAudioFadeOut \in BOOLEAN
    /\ eventHandlers = [k \in ListenKeys \cup AudioKeys |->
                           IF k \in AudioKeys \cup {"response.text.done"}
                           THEN <<"h1">> ELSE <<>>]
    /\ ObsInit
    /\ history = <<>>
    /\ ConvInit
    /\ onSendEvent = TRUE
    /\ HookInit

NextAudioKeys ==
    \/ \E e \in ServerEvents :
           processServerEvent(e) /\ UNCHANGED <<history, convVars>>
    \/ \E e \in InternalEvents :
           processInternalEvent(e) /\ UNCHANGED <<history, convVars>>
    \/ resetInterruptTimestamp /\ UNCHANGED <<history, convVars>>

SpecAudioKeys == InitAudioKeys /\ [][NextAudioKeys]_vars

-----------------------------------------------------------------------------
(* The hook's isProcessing flag: one session started through the hook,     *)
(* response.create sent through it, the server's text and cancel events    *)
(* received.                                                               *)

ProcessingEvents ==
    {Event("response.text.delta", "resp_5", "hi"),
     Event("response.text.done", "resp_5", ""),
     Event("response.text.done", "resp_7", ""),
     Event(CancelType, "resp_5", ""),
     Event(CancelType, "resp_7", "")}

\* The hook's sendEvent: conversationRef.current?.sendEvent(event), with the
\* onSendEvent the hook hands to the factory:
\* if (event.type === "response.create") setState({isProcessing: true})
hookSendEvent(event, transmit) ==
    /\ conversationRef # 0
    /\ sendEvent(event, transmit)
    /\ isProcessing' =
           (\/ isProcessing
            \/ /\ event = "response.create"
               /\ InSeq(Effect("onSendEvent", event), sendLog'))
    /\ UNCHANGED <<procVars, obsVars, history, hookVars, lastMessage,
                   requestedMute, interrupted, fadeTimers, renderLog>>

\* The processor as the hook's startSession has the factory configure it
InitProcessing ==
    /\ lastInterruptTimestamp = 0
    /\ onAudioChunk = TRUE
    /\ onAudioInterrupt = FALSE
    /\ onAudioFadeOut = TRUE
    /\ eventHandlers = [k \in ListenKeys |->
                           IF k = "response.text.done" THEN <<HookTextDone>>
                           ELSE IF k = "response.text.delta" THEN <<"h1">>
                           ELSE <<>>]
    /\ ObsInit
    /\ history = <<>>
    /\ ConvInit
    /\ onSendEvent = TRUE
    /\ HookInit

NextProcessing ==
    \/ \E o \in Outcomes : initializeOutput(o) /\ onlySession
    \/ \E o \in Outcomes, k \in Outcomes :
           initializeInput(o, k) /\ onlySession
    \/ hookStartResolved
    \/ onclose /\ onlySession
    \/ \E e \in ClientEventTypes, t \in Outcomes : hookSendEvent(e, t)
    \/ \E d \in BOOLEAN, e \in ProcessingEvents : onmessage(d, e)

SpecProcessing == InitProcessing /\ [][NextProcessing]_vars

-----------------------------------------------------------------------------
(* Properties of the event processor.                                      *)

\* The numeric suffix a well-formed response identifier carries (NaN: none)
NumericSuffix(rid) ==
    CASE rid = "resp_5" -> 5 [] rid = "resp_6" -> 6 [] rid = "resp_7" -> 7
      [] rid = "resp_8" -> 8 [] rid = "resp_100" -> 100 [] OTHER -> NaN

SetMax(S) == CHOOSE x \in S : \A y \in S : y <= x

CancelIndices == {j \in 1..Len(history) : history[j].event.type = CancelType}

ListenerCalls == {i \in 1..Len(calls) : calls[i].kind = "listener"}
ChunkCalls ==
    {i \in 1..Len(calls) :
        calls[i].kind = "sink" /\ calls[i].target = "onAudioChunk"}

\* The last operation processed an event of one of `types` whose response
\* carries a numeric suffix, with a numeric cursor in place.
Processed(types) ==
    /\ lastEvent.type \in types
    /\ NumericSuffix(lastEvent.response_id) # NaN
    /\ prevTimestamp # NaN

\* C1 (as claimed): once cancel events have been processed, the interrupt
\* cursor equals the maximum numeric suffix among the cancel events processed
\* so far; a cancel with a smaller suffix does not lower it.
C1_CursorIsMaxCancel ==
    CancelIndices # {} =>
        lastInterruptTimestamp =
            SetMax({NumericSuffix(history[j].event.response_id) :
                        j \in CancelIndices})

\* C2: a response.audio.delta whose numeric suffix is strictly less than the
\* cursor at the moment it is processed invokes the audio-chunk sink zero times.
C2_StaleAudioSuppressed ==
    (/\ Processed({"response.audio.delta"})
     /\ NumericSuffix(lastEvent.response_id) < prevTimestamp)
    => ChunkCalls = {}

C2_Witness ==
    /\ Processed({"response.audio.delta"})
    /\ NumericSuffix(lastEvent.response_id) < prevTimestamp
    /\ onAudioChunk
    /\ calls = <<>>

\* C3: a response.text.delta or response.text.done whose numeric suffix is
\* strictly less than the cursor at the moment it is processed invokes no
\* listener registered under its type.
C3_StaleTextSuppressed ==
    (/\ Processed(TextTypes)
     /\ NumericSuffix(lastEvent.response_id) < prevTimestamp)
    => ListenerCalls = {}

C3_Witness ==
    /\ Processed(TextTypes)
    /\ NumericSuffix(lastEvent.response_id) < prevTimestamp
    /\ eventHandlers[lastEvent.type] # <<>>
    /\ calls = <<>>

C5_CurrentAudioForwarded ==
    (/\ Processed({"response.audio.delta"})
     /\ NumericSuffix(lastEvent.response_id) >= prevTimestamp
     /\ onAudioChunk)
    => calls = <<SinkCall("onAudioChunk", lastEvent.delta)>>

C5_Witness ==
    /\ lastEvent = Event("response.audio.delta", "resp_100", "BBB=")
    /\ prevTimestamp = 100
    /\ calls = <<SinkCall("onAudioChunk", "BBB=")>>

\* An entry of the processed stream reached its sink or listener / was dropped
Delivered(h) ==
    IF h.event.type = "response.audio.delta"
    THEN h.calls = <<SinkCall("onAudioChunk", h.event.delta)>>
    ELSE h.calls = <<ListenerCall(h.event.type, "h1", h.event)>>
Suppressed(h) == h.calls = <<>>

\* The stream starts [A(suffix 5), cancel(suffix 7), B(suffix 6), C(suffix 8)]
OrderingScenario ==
    /\ Len(history) >= 4
    /\ \A i \in {1, 3, 4} : history[i].event.type # CancelType
    /\ history[2].event.type = CancelType
    /\ NumericSuffix(history[1].event.response_id) = 5
    /\ NumericSuffix(history[2].event.response_id) = 7
    /\ NumericSuffix(history[3].event.response_id) = 6
    /\ NumericSuffix(history[4].event.response_id) = 8

\* C6: each inbound event is filtered with the cursor in place when it is
\* processed: in the stream [A(5), cancel(7), B(6), C(8)] A is delivered, B is
\* suppressed and C is delivered; every audio or text delta is dropped exactly
\* when its suffix is below the cursor it met, whatever arrives later.
C6_FilteredAtArrival ==
    /\ OrderingScenario =>
           /\ Delivered(history[1])
           /\ Suppressed(history[3])
           /\ Delivered(history[4])
    /\ \A i \in 1..Len(history) :
           history[i].event.type # CancelType =>
               IF NumericSuffix(history[i].event.response_id)
                      < history[i].cursor
               THEN Suppressed(history[i])
               ELSE Delivered(history[i])

C6_Witness ==
    /\ OrderingScenario
    /\ Len(history) = 4
    /\ Suppressed(history[3])
    /\ Delivered(history[4])

-----------------------------------------------------------------------------
(* Properties of the session teardown.                                     *)

Disconnections ==
    {i \in 1..Len(internalLog) : internalLog[i].type = "disconnected"}

DisconnectionsBy(c) ==
    {i \in Disconnections :
        internalLog[i].by = "endSession" /\ internalLog[i].call = c}

\* C7 (as claimed): endSession called twice in succession on a connected
\* session dispatches exactly one `disconnected` event in total, and the
\* second call neither throws nor runs the teardown again.
C7_SecondEndSessionNoOp ==
    (/\ kind[1] = "endSession" /\ kind[2] = "endSession"
     /\ connectedAtStart[1]
     /\ pcEnd[1] = "resolved"
     /\ sequential[1] /\ sequential[2]
     /\ Finished(2))
    => /\ Cardinality(Disconnections) = 1
       /\ pcEnd[2] = "resolved"
       /\ DisconnectionsBy(2) = {}

\* C8 (as claimed): a session that reached `connected` dispatches exactly one
\* `disconnected` event over its lifetime: never a second one, whatever
\* combination of endSession, error callback and close callback ends it.
C8_OneDisconnected ==
    pcInit = "resolved" => Cardinality(Disconnections) <= 1

C10_TeardownCompletes ==
    \A c \in Calls :
        Finished(c) =>
            /\ audioInput = "closed"
            /\ audioOutput = "closed"
            /\ sock \in {"closing", "closed"}
            /\ ~isConnected

-----------------------------------------------------------------------------
(* Properties of the session start and of the transport callbacks.         *)

\* C11 (as claimed): when a failure of startSession is propagated to the
\* caller (render device, capture device or transport step), no device and
\* no transport acquired by that attempt remains open.
C11_NoDanglingHandles ==
    pcInit = "rejected" =>
        /\ audioOutput # "open"
        /\ audioInput # "open"
        /\ sock \notin {"connecting", "open"}

\* C12 (as claimed): the error callback never ends by an exception escaping
\* it, and once it has ended the start promise is no longer pending, also
\* when closing a device inside the callback failed.
C12_ErrorCallbackRejects ==
    /\ pcErr # "aborted"
    /\ pcErr = "done" => pcInit # "connecting"

\* C13 (as claimed): when the transport of a connected session has closed
\* (close callback run, any error callback over) and no endSession was
\* called, the capture device and the render device are closed.
C13_TransportCloseClosesDevices ==
    (/\ pcInit = "resolved"
     /\ sock = "closed"
     /\ pcErr \in {"idle", "done", "aborted"}
     /\ \A c \in Calls : pcEnd[c] = "idle")
    => /\ audioInput = "closed"
       /\ audioOutput = "closed"

\* C17 (as claimed): getConnectionStatus() is true only in `connected`: the
\* transport is open, and no transport error, no transport close and no
\* endSession call (returned or failed part-way) has occurred since.
C17_StatusOnlyWhileConnected ==
    getConnectionStatus =>
        /\ sock = "open"
        /\ pcErr = "idle"
        /\ \A c \in Calls : ~Finished(c)

ConnectedDispatches ==
    {i \in 1..Len(internalLog) : internalLog[i].type = "connected"}

\* C18: startSession resolves only on the open acknowledgment of the
\* transport: in the step that resolves it the socket is open,
\* getConnectionStatus() is true and exactly one `connected` event has been
\* dispatched; no `connected` event is dispatched before the acknowledgment.
C18_ResolvesOnOpen ==
    /\ [](sock \in {"none", "connecting"} => ConnectedDispatches = {})
    /\ [][(pcInit # "resolved" /\ pcInit' = "resolved") =>
             /\ sock' = "open"
             /\ getConnectionStatus'
             /\ Cardinality(ConnectedDispatches') = 1]_vars

C18_Witness ==
    /\ pcInit = "resolved"
    /\ getConnectionStatus
    /\ Cardinality(ConnectedDispatches) = 1
    /\ internalLog[1] = InternalEntry("connected", "onopen", 0)

-----------------------------------------------------------------------------
(* Properties of outbound events.                                          *)

\* The session is in `connected`: transport open, handle held, flag set
Connected == sock = "open" /\ ws = "set" /\ getConnectionStatus

C16_ObservedBeforeTransmitted ==
    (/\ sendArg \in ClientEventTypes \ {AppendType}
     /\ sendResult \in {"returned", "SendFailed"}
     /\ onSendEvent)
    => /\ sendLog # <<>>
       /\ sendLog[1] = Effect("onSendEvent", sendArg)
       /\ \A i \in 1..Len(sendLog) : sendLog[i].op = "ws.send" => i > 1

-----------------------------------------------------------------------------
(* Properties of listener dispatch.                                        *)

\* Listener invocations of the last call that ended by throwing
Throwings == {i \in ListenerCalls : Throws(calls[i].handler)}

\* C19 (as claimed): when two listeners are registered under the key of the
\* dispatched event and the first one throws, the second one is still
\* invoked with the same event, and no exception leaves the process* call.
C19_SecondListenerStillInvoked ==
    LET hs == HandlersOf(eventHandlers, lastEvent.type)
    IN  (Len(hs) >= 2 /\ Throws(hs[1])) =>
            /\ \E i \in ListenerCalls :
                   calls[i] = ListenerCall(lastEvent.type, hs[2], lastEvent)
            /\ ~threw

\* C20 (as claimed): each time a listener throws during a dispatch, one
\* synthesized error event is dispatched to every listener registered under
\* the error key: each of them receives as many synthesized events as
\* listener invocations threw.
C20_EveryThrowReachesErrorListeners ==
    LET errs == HandlersOf(eventHandlers, "error")
    IN  \A n \in 1..Len(errs) :
            Cardinality({i \in ListenerCalls :
                            calls[i] = ListenerCall("error", errs[n],
                                                    ErrorEvent)})
                = Cardinality(Throwings)

-----------------------------------------------------------------------------
(* Properties of the hook.                                                 *)

\* The session holds an open audio device
Holding(s) == inputOf[s] = "open" \/ outputOf[s] = "open"

\* C14 (as claimed): in every interleaving of hook startSession and
\* endSession calls at most one session holds open audio devices at any
\* time, and once the calls are over no session holds open devices unless
\* the hook's reference points to it.
C14_OneSessionHoldsDevices ==
    /\ Cardinality({s \in Sessions : Holding(s)}) <= 1
    /\ (\A c \in HookCalls : HookQuiet(c)) =>
           \A s \in Sessions : Holding(s) => conversationRef = s

-----------------------------------------------------------------------------
(* Properties of error surfacing.                                          *)

\* Deliveries of the synthesized error event by the last processor call
ErrorDeliveries(h) ==
    {i \in ListenerCalls : calls[i] = ListenerCall("error", h, ErrorEvent)}

\* C21 (as claimed): when an inbound message cannot be decoded, a
\* synthesized error event is delivered to the listeners registered under
\* the `error` key, and the message callback leaves the session connected.
C21_DecodeErrorReachesListeners ==
    /\ [](~lastMessage.decoded /\ lastMessage.reported =>
             \A n \in 1..Len(eventHandlers["error"]) :
                 ErrorDeliveries(eventHandlers["error"][n]) # {})
    /\ [][lastMessage' # lastMessage =>
             UNCHANGED <<isConnected, sock, ws>>]_vars

ErrorsSurfaced ==
    {i \in 1..Len(internalLog) : internalLog[i].type = "error"}

\* C22 (as claimed): once the error callback of the transport is over, the
\* start promise is no longer pending, an error event has been handed to
\* the event processor for the `error` listeners, and
\* getConnectionStatus() is false.
C22_TransportFailureSurfaced ==
    pcErr = "done" =>
        /\ pcInit # "connecting"
        /\ ErrorsSurfaced # {}
        /\ ~getConnectionStatus

-----------------------------------------------------------------------------
(* Properties of the numeric suffix and of the cursor's life.              *)

\* Identifiers without separator, with an empty second segment, and with a
\* second segment that is not a number
AbsentOrMalformed == {"resp", "resp_", "resp_abc"}

\* The sink or listeners the last event is meant for exist
Receivable ==
    IF lastEvent.type \in AudioTypes THEN onAudioChunk
    ELSE HandlersOf(eventHandlers, lastEvent.type) # <<>>

\* C23 (as claimed): the suffix extracted from an identifier whose suffix
\* is absent or malformed is zero, and an audio delta or text event carrying
\* it is filtered like suffix 0: dropped once the cursor is above zero,
\* passed while the cursor is zero.
C23_MalformedSuffixIsZero ==
    (/\ lastEvent.type \in {"response.audio.delta"} \cup TextTypes
     /\ lastEvent.response_id \in AbsentOrMalformed
     /\ prevTimestamp # NaN)
    => /\ parseResponseId(lastEvent.response_id) = 0
       /\ prevTimestamp > 0 => calls = <<>>
       /\ (prevTimestamp = 0 /\ Receivable) => calls # <<>>

\* C24: a session started through the factory begins with cursor zero,
\* whatever interrupts earlier sessions saw, so the first audio or text
\* event it receives is delivered and not dropped; and
\* resetInterruptTimestamp() leaves the cursor at zero from any state.
C24_NewSessionStartsAtZero ==
    /\ [][created' # created => lastInterruptTimestamp' = 0]_vars
    /\ [][resetInterruptTimestamp => lastInterruptTimestamp' = 0]_vars
    /\ []((created >= 1 /\ lastEvent = NoEvent) => lastInterruptTimestamp = 0)
    /\ [][(/\ lastEvent = NoEvent
           /\ Len(history') = Len(history) + 1
           /\ history'[Len(history')].event.type # CancelType)
          => Delivered(history'[Len(history')])]_vars

C24_Witness ==
    /\ created = 2
    /\ Len(history) = 2
    /\ history[1].event = Event(CancelType, "resp_7", "")
    /\ history[2].event = Event("response.audio.delta", "resp_5", "AAA=")
    /\ history[2].cursor = 0
    /\ Delivered(history[2])

-----------------------------------------------------------------------------
(* Properties of mute, volume and the render path.                         *)

\* C25 (as claimed): whenever a capture device exists, its mute flag is the
\* last value passed to setMuted (false if none), a value passed through
\* the hook before a session was started included, and getMuted() returns
\* that value.
C25_MuteReachesDevice ==
    audioInput = "open" =>
        /\ inputMuted = requestedMute
        /\ hookGetMuted = requestedMute

\* The value the contract gives getVolume() after setVolume(v), v a number
ContractVolume(v) ==
    IF v < 0 THEN 0 ELSE IF v > FullVolume THEN FullVolume ELSE v

\* C26: after setVolume(v) with v below 0, within range or above 1,
\* getVolume() is in [0,1]: v itself in range, 0 below, 1 above.  Each call
\* overwrites the stored volume, so this covers every sequence of calls.
C26_VolumeClamped ==
    [][\A v \in VolumeArgs \ {NaN} :
          setVolume(v) =>
              /\ getVolume' = ContractVolume(v)
              /\ getVolume' \in 0..FullVolume]_vars

\* C26 witness: the three classes have been stored with a render device
\* present (the stored volume is also the live gain)
C26_Witness ==
    /\ audioOutput = "open"
    /\ getVolume = 0
    /\ gain = 0

\* C27: when the restore timer of a fadeOutAudio fires while the render
\* device exists, the gain becomes the most recently set volume (one set
\* during the fade included) and the interrupted flag is cleared; and
\* fadeOutAudio returns with the flag set and the timer pending, i.e.
\* without waiting for it.
C27_TimerRestoresVolume ==
    /\ [][(fadeTimer /\ audioOutput # "null" /\ volume # NaN) =>
            /\ gain' = volume
            /\ renderLog' = <<"gain", "clearInterrupted">>
            /\ ~interrupted']_vars
    /\ [][(fadeOutAudio /\ audioOutput # "null") =>
            /\ Len(fadeTimers') = Len(fadeTimers) + 1
            /\ interrupted'
            /\ renderLog' = <<"interrupt", "ramp">>]_vars

\* C27 witness: the timer has fired on an open device after the volume was
\* changed from its default, and the gain is that volume
C27_Witness ==
    /\ audioOutput = "open"
    /\ renderLog = RestoreMessages
    /\ fadeTimers = <<>>
    /\ volume = 50
    /\ gain = 50
    /\ ~interrupted

\* C28 (as claimed): a second fadeOutAudio before the first one's timer has
\* fired restarts the timer: the timer that fires while another one is
\* still pending (the first call's deadline, the second ramp in progress)
\* restores nothing, so gain restore and clear-interrupted happen once.
C28_SecondFadeRestartsTimer ==
    [][(fadeTimer /\ fadeTimers' # <<>>) =>
          /\ renderLog' = <<>>
          /\ UNCHANGED <<gain, interrupted>>]_vars

\* C29 (as claimed): a restore timer that was pending when endSession
\* completed is a no-op when it fires: no gain write and no message to the
\* closed render device.
C29_TimerAfterEndIsNoOp ==
    [][(fadeTimer /\ Head(fadeTimers) # "resolved"
                  /\ pcEnd[1] = "resolved") =>
          /\ renderLog' = <<>>
          /\ UNCHANGED gain]_vars

RECURSIVE EnqueuedWhileInterrupted(_, _)
\* Some "buffer" message of the sequence reaches the worklet while its
\* flag is set
EnqueuedWhileInterrupted(flag, messages) ==
    IF messages = <<>> THEN FALSE
    ELSE \/ Head(messages) = "buffer" /\ flag
         \/ EnqueuedWhileInterrupted(setInterrupted(flag, Head(messages)),
                                     Tail(messages))

\* C30: addAudioBase64Chunk posts clear-interrupted before the chunk, so
\* the chunk is not enqueued while the render path is marked interrupted;
\* without a render device it does nothing.
C30_ClearBeforeEnqueue ==
    [][addAudioBase64Chunk =>
          IF audioOutput = "null"
          THEN renderLog' = <<>> /\ UNCHANGED <<interrupted, gain>>
          ELSE /\ \E i, j \in 1..Len(renderLog') :
                     /\ i < j
                     /\ renderLog'[i] = "clearInterrupted"
                     /\ renderLog'[j] = "buffer"
               /\ ~EnqueuedWhileInterrupted(interrupted, renderLog')
               /\ ~interrupted']_vars

\* C30 witness: a chunk has been handed over after two fade-outs whose
\* timers are both still pending (the flag was set when it arrived)
C30_Witness ==
    /\ audioOutput = "open"
    /\ Len(fadeTimers) = MaxFades
    /\ renderLog = ChunkMessages
    /\ ~interrupted

-----------------------------------------------------------------------------
(* Properties of classification and dispatch.                              *)

\* C31 (as claimed): a server event that is neither audio, cancel nor text
\* is dispatched unchanged, exactly once, to every listener registered
\* under its own type key, and to no listener registered under another key.
C31_PassThroughDispatched ==
    LET hs == HandlersOf(eventHandlers, lastEvent.type)
    IN  lastEvent \in DispatchEvents =>
            /\ \A n \in 1..Len(hs) :
                   Cardinality({i \in ListenerCalls :
                                   calls[i] = ListenerCall(lastEvent.type,
                                                           hs[n], lastEvent)})
                       = 1
            /\ \A i \in ListenerCalls :
                   calls[i].event = lastEvent =>
                       calls[i].target = lastEvent.type

\* Positions in the last call's record of the invocations of one sink
SinkCalls(name) ==
    {i \in 1..Len(calls) : calls[i].kind = "sink" /\ calls[i].target = name}

AssignCalls == {i \in 1..Len(calls) : calls[i] = CursorAssigned}

\* C32: processing a response.audio.cancel sets the cursor to the event's
\* numeric suffix, then invokes the audio-interrupt sink and then the
\* audio-fade-out sink, each once when configured and not at all otherwise,
\* and nothing else; the assignment precedes both sink calls.
C32_CancelSetsCursorThenSinks ==
    (lastEvent.type = CancelType /\ lastEvent.response_id # Undefined) =>
        /\ NumericSuffix(lastEvent.response_id) # NaN =>
               lastInterruptTimestamp = NumericSuffix(lastEvent.response_id)
        /\ Cardinality(AssignCalls) = 1
        /\ Cardinality(SinkCalls("onAudioInterrupt")) =
               (IF onAudioInterrupt THEN 1 ELSE 0)
        /\ Cardinality(SinkCalls("onAudioFadeOut")) =
               (IF onAudioFadeOut THEN 1 ELSE 0)
        /\ Len(calls) = 1 + Cardinality(SinkCalls("onAudioInterrupt"))
                          + Cardinality(SinkCalls("onAudioFadeOut"))
        /\ \A a \in AssignCalls :
               \A i \in SinkCalls("onAudioInterrupt")
                         \cup SinkCalls("onAudioFadeOut") : a < i
        /\ \A i \in SinkCalls("onAudioInterrupt") :
               \A f \in SinkCalls("onAudioFadeOut") : i < f
        /\ ~threw

\* C32 witness: the cancel of resp_7 processed at cursor 5 with both sinks
\* configured
C32_Witness ==
    /\ lastEvent = Event(CancelType, "resp_7", "")
    /\ prevTimestamp = 5
    /\ lastInterruptTimestamp = 7
    /\ onAudioInterrupt /\ onAudioFadeOut
    /\ Len(calls) = 3

\* C33: the cursor changes only when a response.audio.cancel is processed or
\* resetInterruptTimestamp is called; every other server event, delivered or
\* dropped, every internal event, on and off leave it as it was.
C33_CursorChangedOnlyByCancelOrReset ==
    [][lastInterruptTimestamp' # lastInterruptTimestamp =>
          \/ \E e \in ServerEvents :
                 e.type = CancelType /\ processServerEvent(e)
          \/ resetInterruptTimestamp]_vars

\* C33 witness: a text delta was delivered at cursor 7, which is still 7
C33_Witness ==
    /\ lastEvent = Event("response.text.delta", "resp_100", "hi")
    /\ prevTimestamp = 7
    /\ lastInterruptTimestamp = 7
    /\ ListenerCalls # {}

\* C34: processServerEvent invokes no listener registered under
\* response.audio.delta, response.audio.done or response.audio.cancel,
\* whatever the cursor: for these events it invokes no listener at all, only
\* the audio-chunk, interrupt and fade-out sinks.
C34_AudioKeysNeverDispatched ==
    /\ \A i \in ListenerCalls : calls[i].target \notin AudioKeys
    /\ lastEvent.type \in AudioKeys =>
           \A i \in 1..Len(calls) :
               \/ calls[i] = CursorAssigned
               \/ /\ calls[i].kind = "sink"
                  /\ calls[i].target \in {"onAudioChunk", "onAudioInterrupt",
                                          "onAudioFadeOut"}

\* C34 witness: an audio delta passed the cursor and reached the chunk sink
\* while a listener was registered under its key
C34_Witness ==
    /\ lastEvent = Event("response.audio.delta", "resp_7", "AAA=")
    /\ prevTimestamp = 5
    /\ \A k \in AudioKeys : eventHandlers[k] # <<>>
    /\ calls = <<SinkCall("onAudioChunk", "AAA=")>>

\* C35 (as claimed): dispatch always terminates: whatever listeners are
\* registered, a throwing `error` listener included, a process* call makes
\* finitely many listener invocations and returns; synthesized error events
\* are not re-dispatched without bound.
C35_DispatchTerminates ==
    \A i \in 1..Len(calls) : calls[i] # Unbounded

\* C36 (as claimed): after a response.audio.cancel whose identifier has a
\* non-numeric suffix (the cursor is then not a number), a later
\* response.audio.delta with a well-formed numeric suffix is still forwarded
\* to the configured audio-chunk sink.
C36_MalformedCancelKeepsAudio ==
    (/\ lastEvent.type = "response.audio.delta"
     /\ NumericSuffix(lastEvent.response_id) # NaN
     /\ prevTimestamp = NaN
     /\ onAudioChunk)
    => calls = <<SinkCall("onAudioChunk", lastEvent.delta)>>

\* Server events whose handling reads response_id, carrying none
WithoutResponseId ==
    {e \in InboundEvents :
        /\ e.type \in AudioTypes \cup {CancelType} \cup TextTypes
        /\ e.response_id = Undefined}

\* C37: a message carrying an audio, text or cancel event without
\* response_id makes processServerEvent fail before any effect: the cursor,
\* the sinks and the listeners are untouched and nothing is invoked; the
\* message callback catches the failure, so the session stays connected and
\* in the state in which it processes the next message.
C37_MissingResponseIdFailsCleanly ==
    [][\A e \in WithoutResponseId :
          onmessage(TRUE, e) =>
              /\ threw'
              /\ calls' = <<>>
              /\ lastMessage' = Message(TRUE, TRUE)
              /\ UNCHANGED <<procVars, sessionVars>>]_vars

\* C37 witness: a cancel without response_id was received on a connected
\* session whose cursor an earlier cancel had set to 7
C37_Witness ==
    /\ lastEvent = Event(CancelType, Undefined, "")
    /\ lastMessage = Message(TRUE, TRUE)
    /\ lastInterruptTimestamp = 7
    /\ calls = <<>>
    /\ Connected

\* C38 (as claimed): once the server has finished a response, isProcessing
\* is false again: when a response.text.done message has been received the
\* flag is false, also when that event is dropped as stale because the
\* response was interrupted.
C38_ProcessingEnds ==
    [][\A e \in ProcessingEvents :
          (e.type = "response.text.done" /\ onmessage(TRUE, e))
              => ~isProcessing']_vars

\* C39 (as claimed): when a chunk is handed to an open render device, which
\* is then not marked interrupted, the gain it is played through equals the
\* configured volume, also when it arrives within the two seconds after an
\* interrupt, while the fade-out timer is still pending.
C39_ChunkPlayedAtVolume ==
    [][(addAudioBase64Chunk /\ audioOutput = "open" /\ volume # NaN) =>
          /\ ~interrupted'
          /\ gain' = volume']_vars

\* C40 (as claimed): over the lifetime of a session close() is invoked at
\* most once on the capture device and at most once on the render device,
\* however the transport error callback, endSession, a repeated endSession
\* and close() interleave.
C40_DevicesClosedOnce ==
    /\ closeCalls["input"] <= 1
    /\ closeCalls["output"] <= 1

====
